---- MODULE Spec2Model ----
(***************************************************************************)
(* Model of the sevico-be authentication service (app/services/           *)
(* auth_service.py and its collaborators).                                 *)
(*                                                                         *)
(* The "users" collection is a MongoDB collection with no unique index    *)
(* (config/database.py creates none), so it is a sequence of documents in *)
(* natural (insertion) order; find_one and update_one act on the first    *)
(* document matching the filter.  Every handler of AuthService makes one  *)
(* find_one round trip and then, after its checks, at most one write      *)
(* round trip: a request is modelled as two steps, Call (the find_one)    *)
(* and Finish (the checks, the clock reads and the write).  Spec runs the *)
(* requests one after the other while the clock advances; RaceSpec lets   *)
(* the steps of different requests interleave (the handlers share the     *)
(* store with every other worker of the service and hold no lock).        *)
(*                                                                         *)
(* Time is in minutes.  Optional values are sequences of length at most 1 *)
(* (None is <<>>); a field that is absent from a document reads as None,  *)
(* as dict.get does.  The profile fields fullname, avatar and dob are     *)
(* written once by register_user and read by no check; they are left out. *)
(***************************************************************************)
EXTENDS Integers, Sequences, FiniteSets, TLC

VARIABLES
    users,      \* the users collection, in natural order
    now,        \* datetime.utcnow(), in minutes
    pc,         \* per request slot: "idle", or "found" once find_one has returned
    call,       \* per request slot: the handler and its arguments
    user,       \* per request slot: what find_one returned
    response,   \* what the step just taken returned to its caller, if it returned
    spentToken, \* history, per email: the reset token presented by the last
                \* successful confirm_password_reset, None once
                \* initiate_password_reset has stored a token since
    bearer      \* the token a client presents to the token routes, if it holds one

vars == <<users, now, pc, call, user, response, spentToken, bearer>>

----------------------------------------------------------------------------
(* Bounds *)

NumProcs == 2
MaxDocs == 2
MaxTime == 75
TickMinutes == 15

Procs == 1..NumProcs
Emails == {"a@x.com"}           \* addresses that sign up
Strangers == {"nobody@x.com"}   \* addresses that never sign up
Passwords == {"password1", "password2"}
Codes == {"111111", "222222"}
ResetTokens == {"tokenA", "tokenB"}
Salts == {"s1"}

----------------------------------------------------------------------------
(* Settings *)

verification_code_expiration_minutes == 15
password_reset_expiration_hours == 1
jwt_expiration_hours == 24
jwt_secret_key == "your-jwt-secret-key-change-in-production"

----------------------------------------------------------------------------
(* Values *)

None == <<>>
Some(x) == <<x>>

Min(S) == CHOOSE x \in S : \A y \in S : x <= y

(* app.utils.password_helper: a salted one-way hash and its check. *)
hash_password(password, salt) == [salt |-> salt, digest |-> <<salt, password>>]
verify_password(password, hash) == hash.digest = <<hash.salt, password>>

(* A token: whether the string parses as a compact JWS, the sub and exp     *)
(* claims it carries, each optional, and the key its signature was made     *)
(* with.                                                                     *)
jwt_encode(claims, key) ==
    [jws |-> TRUE, sub |-> claims.sub, exp |-> claims.exp, key |-> key]

(* jwt_helper.create_access_token({"sub": sub}, expires_delta) at clock t;  *)
(* a zero timedelta is falsy and gets the default lifetime.                 *)
create_access_token(sub, expires_delta, t) ==
    LET expire == IF expires_delta # None /\ expires_delta[1] # 0
                  THEN t + expires_delta[1]
                  ELSE t + jwt_expiration_hours * 60
    IN jwt_encode([sub |-> Some(sub), exp |-> Some(expire)], jwt_secret_key)

(* jwt.decode rejecting a token at its expiry instant. *)
jwt_decode_strict_expiry(token, key, t) ==
    IF ~token.jws \/ token.key # key THEN None
    ELSE IF token.exp # None /\ token.exp[1] <= t THEN None
    ELSE Some([sub |-> token.sub, exp |-> token.exp])

(* jose.jwt.decode at clock t: the claims, or None where it raises a        *)
(* JWTError: the string is no JWS, the signature does not verify under key, *)
(* or exp is before the clock.                                               *)
jwt_decode(token, key, t) ==
    IF ~token.jws \/ token.key # key THEN None
    ELSE IF token.exp # None /\ token.exp[1] < t THEN None
    ELSE Some([sub |-> token.sub, exp |-> token.exp])

(* jose.jwt.get_unverified_claims *)
get_unverified_claims(token) ==
    IF ~token.jws THEN None ELSE Some([sub |-> token.sub, exp |-> token.exp])

decode_token(token) == get_unverified_claims(token)

(* verify_token reading the claims without checking the signature. *)
verify_token_unverified(token, t) ==
    LET payload == decode_token(token) IN
    IF payload = None THEN None
    ELSE IF payload[1].sub = None THEN None
    ELSE payload

verify_token(token, t) ==
    LET payload == jwt_decode(token, jwt_secret_key, t) IN
    IF payload = None THEN None
    ELSE IF payload[1].sub = None THEN None
    ELSE payload

get_email_from_token(token, t) ==
    LET payload == verify_token(token, t) IN
    IF payload # None THEN payload[1].sub ELSE None

(* The passwords a document's hash verifies. *)
Authenticating(doc) == {pw \in Passwords : verify_password(pw, doc.password_hash)}

(* Return values of the AuthService methods; "" stands for an absent key. *)
Failure(msg) ==
    [success |-> FALSE, message |-> msg, secret |-> None, access_token |-> None]
Success(msg, secret, token) ==
    [success |-> TRUE, message |-> msg, secret |-> secret, access_token |-> token]

NoCall == [op |-> "none", email |-> "-", password |-> "-", secret |-> "-"]

(* What a route answers: a status and a body; a raised HTTPException has a *)
(* body of one field, detail.                                               *)
HTTPException(status_code, detail) ==
    [status |-> status_code, body |-> [detail |-> detail]]
NoHttp == HTTPException(0, "")

(* One message handed to the email service, and whether send_email          *)
(* reported it sent.                                                         *)
Mail(to, secret, delivered) ==
    [to |-> to, secret |-> secret, delivered |-> delivered]

NoResponse ==
    [slot |-> 0, call |-> NoCall, result |-> Failure(""), http |-> NoHttp,
     mail |-> None]

----------------------------------------------------------------------------
(* The users collection *)

Matching(coll, email) == {i \in 1..Len(coll) : coll[i].email = email}

find_one(coll, email) ==
    IF Matching(coll, email) = {} THEN None
    ELSE Some(coll[Min(Matching(coll, email))])

(* update_many: every document of the collection gets the named fields. *)
update_one_every_document(coll, email, set) ==
    IF Matching(coll, email) = {} THEN coll
    ELSE [i \in 1..Len(coll) |-> set @@ coll[i]]

(* update_one with $set: the first matching document gets the named fields. *)
update_one(coll, email, set) ==
    IF Matching(coll, email) = {} THEN coll
    ELSE [coll EXCEPT ![Min(Matching(coll, email))] = set @@ @]

insert_one(coll, doc) == Append(coll, doc)

----------------------------------------------------------------------------
Init ==
    /\ users = <<>>
    /\ now = 0
    /\ pc = [p \in Procs |-> "idle"]
    /\ call = [p \in Procs |-> NoCall]
    /\ user = [p \in Procs |-> None]
    /\ response = NoResponse
    /\ spentToken = [e \in Emails \cup Strangers |-> None]
    /\ bearer = None

(* Handlers of AuthService.  Each takes the document its find_one returned    *)
(* (u, an optional document), its arguments, the values it draws at random   *)
(* and the clock, and returns its result with the write it makes (None for   *)
(* an early return).                                                          *)

(* register_user without its existence check. *)
register_user_unchecked(u, email, password, code, salt, t) ==
    [result |-> Success("", Some(code), None),
     insert |-> Some([email |-> email,
                      password_hash |-> hash_password(password, salt),
                      is_verified |-> FALSE,
                      verification_code |-> Some(code),
                      verification_code_expires_at |->
                          Some(t + verification_code_expiration_minutes),
                      password_reset_token |-> None,
                      password_reset_token_expires_at |-> None,
                      created_at |-> t,
                      updated_at |-> t])]

(* register_user giving the code the reset token's lifetime. *)
register_user_reset_ttl(u, email, password, code, salt, t) ==
    IF u # None
    THEN [result |-> Failure("User already exists"), insert |-> None]
    ELSE [result |-> Success("", Some(code), None),
          insert |-> Some([email |-> email,
                           password_hash |-> hash_password(password, salt),
                           is_verified |-> FALSE,
                           verification_code |-> Some(code),
                           verification_code_expires_at |->
                               Some(t + password_reset_expiration_hours * 60),
                           password_reset_token |-> None,
                           password_reset_token_expires_at |-> None,
                           created_at |-> t,
                           updated_at |-> t])]

register_user(u, email, password, code, salt, t) ==
    IF u # None
    THEN [result |-> Failure("User already exists"), insert |-> None]
    ELSE [result |-> Success("", Some(code), None),
          insert |-> Some([email |-> email,
                           password_hash |-> hash_password(password, salt),
                           is_verified |-> FALSE,
                           verification_code |-> Some(code),
                           verification_code_expires_at |->
                               Some(t + verification_code_expiration_minutes),
                           password_reset_token |-> None,
                           password_reset_token_expires_at |-> None,
                           created_at |-> t,
                           updated_at |-> t])]

(* verify_email without its expiry check. *)
verify_email_unexpired(u, email, verification_code, t) ==
    IF u = None
    THEN [result |-> Failure("User not found"), set |-> None]
    ELSE IF u[1].is_verified
    THEN [result |-> Failure("User already verified"), set |-> None]
    ELSE IF u[1].verification_code # Some(verification_code)
    THEN [result |-> Failure("Invalid verification code"), set |-> None]
    ELSE [result |-> Success("Email verified successfully", None, None),
          set |-> Some([is_verified |-> TRUE,
                        verification_code |-> None,
                        verification_code_expires_at |-> None,
                        updated_at |-> t])]

(* verify_email leaving the code fields as they are. *)
verify_email_keeps_code(u, email, verification_code, t) ==
    IF u = None
    THEN [result |-> Failure("User not found"), set |-> None]
    ELSE IF u[1].is_verified
    THEN [result |-> Failure("User already verified"), set |-> None]
    ELSE IF u[1].verification_code # Some(verification_code)
    THEN [result |-> Failure("Invalid verification code"), set |-> None]
    ELSE IF /\ u[1].verification_code_expires_at # None
            /\ t > u[1].verification_code_expires_at[1]
    THEN [result |-> Failure("Verification code expired"), set |-> None]
    ELSE [result |-> Success("Email verified successfully", None, None),
          set |-> Some([is_verified |-> TRUE, updated_at |-> t])]

(* verify_email testing the expiry before the code. *)
verify_email_expiry_first(u, email, verification_code, t) ==
    IF u = None
    THEN [result |-> Failure("User not found"), set |-> None]
    ELSE IF u[1].is_verified
    THEN [result |-> Failure("User already verified"), set |-> None]
    ELSE IF /\ u[1].verification_code_expires_at # None
            /\ t > u[1].verification_code_expires_at[1]
    THEN [result |-> Failure("Verification code expired"), set |-> None]
    ELSE IF u[1].verification_code # Some(verification_code)
    THEN [result |-> Failure("Invalid verification code"), set |-> None]
    ELSE [result |-> Success("Email verified successfully", None, None),
          set |-> Some([is_verified |-> TRUE,
                        verification_code |-> None,
                        verification_code_expires_at |-> None,
                        updated_at |-> t])]

(* verify_email accepting a code for one more lifetime after its expiry. *)
verify_email_grace(u, email, verification_code, t) ==
    IF u = None
    THEN [result |-> Failure("User not found"), set |-> None]
    ELSE IF u[1].is_verified
    THEN [result |-> Failure("User already verified"), set |-> None]
    ELSE IF u[1].verification_code # Some(verification_code)
    THEN [result |-> Failure("Invalid verification code"), set |-> None]
    ELSE IF /\ u[1].verification_code_expires_at # None
            /\ t > u[1].verification_code_expires_at[1]
                    + verification_code_expiration_minutes
    THEN [result |-> Failure("Verification code expired"), set |-> None]
    ELSE [result |-> Success("Email verified successfully", None, None),
          set |-> Some([is_verified |-> TRUE,
                        verification_code |-> None,
                        verification_code_expires_at |-> None,
                        updated_at |-> t])]

verify_email(u, email, verification_code, t) ==
    IF u = None
    THEN [result |-> Failure("User not found"), set |-> None]
    ELSE IF u[1].is_verified
    THEN [result |-> Failure("User already verified"), set |-> None]
    ELSE IF u[1].verification_code # Some(verification_code)
    THEN [result |-> Failure("Invalid verification code"), set |-> None]
    ELSE IF /\ u[1].verification_code_expires_at # None
            /\ t > u[1].verification_code_expires_at[1]
    THEN [result |-> Failure("Verification code expired"), set |-> None]
    ELSE [result |-> Success("Email verified successfully", None, None),
          set |-> Some([is_verified |-> TRUE,
                        verification_code |-> None,
                        verification_code_expires_at |-> None,
                        updated_at |-> t])]

(* authenticate_user without its is_verified check. *)
authenticate_user_unverified(u, email, password, t) ==
    IF u = None
    THEN Failure("Invalid credentials")
    ELSE IF ~verify_password(password, u[1].password_hash)
    THEN Failure("Invalid credentials")
    ELSE Success("", None, Some(create_access_token(email, None, t)))

(* authenticate_user issuing a token for an email it did not find. *)
authenticate_user_unknown(u, email, password, t) ==
    IF u = None
    THEN Success("", None, Some(create_access_token(email, None, t)))
    ELSE IF ~u[1].is_verified
    THEN Failure("Email not verified")
    ELSE IF ~verify_password(password, u[1].password_hash)
    THEN Failure("Invalid credentials")
    ELSE Success("", None, Some(create_access_token(email, None, t)))

authenticate_user(u, email, password, t) ==
    IF u = None
    THEN Failure("Invalid credentials")
    ELSE IF ~u[1].is_verified
    THEN Failure("Email not verified")
    ELSE IF ~verify_password(password, u[1].password_hash)
    THEN Failure("Invalid credentials")
    ELSE Success("", None, Some(create_access_token(email, None, t)))

(* initiate_password_reset storing no token on an unverified account. *)
initiate_password_reset_verified_only(u, email, reset_token, t) ==
    IF u = None \/ ~u[1].is_verified
    THEN [result |-> Success("Password reset email sent if user exists", None, None),
          set |-> None]
    ELSE [result |-> Success("Password reset email sent", Some(reset_token), None),
          set |-> Some([password_reset_token |-> Some(reset_token),
                        password_reset_token_expires_at |->
                            Some(t + password_reset_expiration_hours * 60),
                        updated_at |-> t])]

(* initiate_password_reset setting the token as a temporary password. *)
initiate_password_reset_rehashes(u, email, reset_token, t) ==
    IF u = None
    THEN [result |-> Success("Password reset email sent if user exists", None, None),
          set |-> None]
    ELSE [result |-> Success("Password reset email sent", Some(reset_token), None),
          set |-> Some([password_hash |-> hash_password(reset_token, u[1].password_hash.salt),
                        password_reset_token |-> Some(reset_token),
                        password_reset_token_expires_at |->
                            Some(t + password_reset_expiration_hours * 60),
                        updated_at |-> t])]

(* initiate_password_reset leaving a stored token in place and extending    *)
(* its expiry.                                                               *)
initiate_password_reset_keeps_first(u, email, reset_token, t) ==
    IF u = None
    THEN [result |-> Success("Password reset email sent if user exists", None, None),
          set |-> None]
    ELSE [result |-> Success("Password reset email sent", Some(reset_token), None),
          set |-> Some([password_reset_token |->
                            IF u[1].password_reset_token # None
                            THEN u[1].password_reset_token
                            ELSE Some(reset_token),
                        password_reset_token_expires_at |->
                            Some(t + password_reset_expiration_hours * 60),
                        updated_at |-> t])]

initiate_password_reset(u, email, reset_token, t) ==
    IF u = None
    THEN [result |-> Success("Password reset email sent if user exists", None, None),
          set |-> None]
    ELSE [result |-> Success("Password reset email sent", Some(reset_token), None),
          set |-> Some([password_reset_token |-> Some(reset_token),
                        password_reset_token_expires_at |->
                            Some(t + password_reset_expiration_hours * 60),
                        updated_at |-> t])]

(* confirm_password_reset leaving the token fields as they are. *)
confirm_password_reset_keeps_token(u, email, reset_token, new_password, salt, t) ==
    IF u = None
    THEN [result |-> Failure("User not found"), set |-> None]
    ELSE IF u[1].password_reset_token # Some(reset_token)
    THEN [result |-> Failure("Invalid reset token"), set |-> None]
    ELSE IF /\ u[1].password_reset_token_expires_at # None
            /\ t > u[1].password_reset_token_expires_at[1]
    THEN [result |-> Failure("Reset token expired"), set |-> None]
    ELSE [result |-> Success("Password reset successfully", None, None),
          set |-> Some([password_hash |-> hash_password(new_password, salt),
                        updated_at |-> t])]

(* confirm_password_reset leaving the password hash as it is. *)
confirm_password_reset_keeps_hash(u, email, reset_token, new_password, salt, t) ==
    IF u = None
    THEN [result |-> Failure("User not found"), set |-> None]
    ELSE IF u[1].password_reset_token # Some(reset_token)
    THEN [result |-> Failure("Invalid reset token"), set |-> None]
    ELSE IF /\ u[1].password_reset_token_expires_at # None
            /\ t > u[1].password_reset_token_expires_at[1]
    THEN [result |-> Failure("Reset token expired"), set |-> None]
    ELSE [result |-> Success("Password reset successfully", None, None),
          set |-> Some([password_reset_token |-> None,
                        password_reset_token_expires_at |-> None,
                        updated_at |-> t])]

(* confirm_password_reset answering an expired token as an invalid one. *)
confirm_password_reset_expired_as_invalid(u, email, reset_token, new_password, salt, t) ==
    IF u = None
    THEN [result |-> Failure("User not found"), set |-> None]
    ELSE IF u[1].password_reset_token # Some(reset_token)
    THEN [result |-> Failure("Invalid reset token"), set |-> None]
    ELSE IF /\ u[1].password_reset_token_expires_at # None
            /\ t > u[1].password_reset_token_expires_at[1]
    THEN [result |-> Failure("Invalid reset token"), set |-> None]
    ELSE [result |-> Success("Password reset successfully", None, None),
          set |-> Some([password_hash |-> hash_password(new_password, salt),
                        password_reset_token |-> None,
                        password_reset_token_expires_at |-> None,
                        updated_at |-> t])]

(* confirm_password_reset sending the account back to verification. *)
confirm_password_reset_unverifies(u, email, reset_token, new_password, salt, t) ==
    IF u = None
    THEN [result |-> Failure("User not found"), set |-> None]
    ELSE IF u[1].password_reset_token # Some(reset_token)
    THEN [result |-> Failure("Invalid reset token"), set |-> None]
    ELSE IF /\ u[1].password_reset_token_expires_at # None
            /\ t > u[1].password_reset_token_expires_at[1]
    THEN [result |-> Failure("Reset token expired"), set |-> None]
    ELSE [result |-> Success("Password reset successfully", None, None),
          set |-> Some([password_hash |-> hash_password(new_password, salt),
                        is_verified |-> FALSE,
                        password_reset_token |-> None,
                        password_reset_token_expires_at |-> None,
                        updated_at |-> t])]

(* confirm_password_reset clearing the token and leaving its expiry. *)
confirm_password_reset_keeps_expiry(u, email, reset_token, new_password, salt, t) ==
    IF u = None
    THEN [result |-> Failure("User not found"), set |-> None]
    ELSE IF u[1].password_reset_token # Some(reset_token)
    THEN [result |-> Failure("Invalid reset token"), set |-> None]
    ELSE IF /\ u[1].password_reset_token_expires_at # None
            /\ t > u[1].password_reset_token_expires_at[1]
    THEN [result |-> Failure("Reset token expired"), set |-> None]
    ELSE [result |-> Success("Password reset successfully", None, None),
          set |-> Some([password_hash |-> hash_password(new_password, salt),
                        password_reset_token |-> None,
                        updated_at |-> t])]

confirm_password_reset(u, email, reset_token, new_password, salt, t) ==
    IF u = None
    THEN [result |-> Failure("User not found"), set |-> None]
    ELSE IF u[1].password_reset_token # Some(reset_token)
    THEN [result |-> Failure("Invalid reset token"), set |-> None]
    ELSE IF /\ u[1].password_reset_token_expires_at # None
            /\ t > u[1].password_reset_token_expires_at[1]
    THEN [result |-> Failure("Reset token expired"), set |-> None]
    ELSE [result |-> Success("Password reset successfully", None, None),
          set |-> Some([password_hash |-> hash_password(new_password, salt),
                        password_reset_token |-> None,
                        password_reset_token_expires_at |-> None,
                        updated_at |-> t])]

----------------------------------------------------------------------------
(* The routes: each maps its service result to the HTTP answer and to the   *)
(* mail it hands to the email service. send_email returns False on a        *)
(* delivery failure and never raises; the routes drop that return value.    *)

(* signup answering 500 when the verification mail was not delivered. *)
signup_requires_delivery(request, result, delivered) ==
    IF ~result.success
    THEN [http |-> HTTPException(400, result.message), mail |-> None]
    ELSE [http |-> IF delivered
                   THEN [status |-> 201,
                         body |-> [email |-> request.email,
                                   message |-> "User registered successfully. Please verify your email."]]
                   ELSE HTTPException(500, "Failed to send verification email"),
          mail |-> Some(Mail(request.email, result.secret[1], delivered))]

signup(request, result, delivered) ==
    IF ~result.success
    THEN [http |-> HTTPException(400, result.message), mail |-> None]
    ELSE [http |-> [status |-> 201,
                    body |-> [email |-> request.email,
                              message |-> "User registered successfully. Please verify your email."]],
          mail |-> Some(Mail(request.email, result.secret[1], delivered))]

verify_email_route(request, result) ==
    [http |-> IF ~result.success
              THEN HTTPException(400, result.message)
              ELSE [status |-> 200, body |-> [message |-> "Email verified successfully"]],
     mail |-> None]

signin(request, result) ==
    [http |-> IF ~result.success
              THEN HTTPException(401, result.message)
              ELSE [status |-> 200,
                    body |-> [access_token |-> result.access_token[1],
                              token_type |-> "bearer",
                              expires_in |-> jwt_expiration_hours * 3600,
                              email |-> request.email]],
     mail |-> None]

(* password_reset answering 404 when the service stored no token. *)
password_reset_reveals_absence(request, result, delivered) ==
    [http |-> IF result.success /\ result.secret # None
              THEN [status |-> 200,
                    body |-> [message |-> "Password reset email sent successfully"]]
              ELSE HTTPException(404, "User not found"),
     mail |-> IF result.success /\ result.secret # None
              THEN Some(Mail(request.email, result.secret[1], delivered))
              ELSE None]

password_reset(request, result, delivered) ==
    [http |-> [status |-> 200,
               body |-> [message |-> "Password reset email sent successfully"]],
     mail |-> IF result.success /\ result.secret # None
              THEN Some(Mail(request.email, result.secret[1], delivered))
              ELSE None]

(* validate_token raising 401 for a token that does not verify. *)
validate_token_raises(token, t) ==
    LET payload == verify_token(token, t) IN
    IF payload = None
    THEN HTTPException(401, "Invalid or expired token")
    ELSE [status |-> 200,
          body |-> [is_valid |-> TRUE, email |-> payload[1].sub,
                    message |-> "Token is valid"]]

validate_token(token, t) ==
    LET payload == verify_token(token, t) IN
    IF payload = None
    THEN [status |-> 200,
          body |-> [is_valid |-> FALSE, email |-> None,
                    message |-> "Invalid or expired token"]]
    ELSE [status |-> 200,
          body |-> [is_valid |-> TRUE, email |-> payload[1].sub,
                    message |-> "Token is valid"]]

(* get_current_user answering 401 when the account is not in the store. *)
get_current_user_no_404(token, coll, t) ==
    LET email == get_email_from_token(token, t) IN
    IF email = None \/ email = Some("")
    THEN HTTPException(401, "Invalid or expired token")
    ELSE LET u == find_one(coll, email[1]) IN
         IF u = None
         THEN HTTPException(401, "Invalid or expired token")
         ELSE [status |-> 200,
               body |-> [email |-> u[1].email,
                         is_verified |-> u[1].is_verified,
                         created_at |-> u[1].created_at]]

(* GET /auth/me; an empty subject is falsy and answered as no subject. *)
get_current_user(token, coll, t) ==
    LET email == get_email_from_token(token, t) IN
    IF email = None \/ email = Some("")
    THEN HTTPException(401, "Invalid or expired token")
    ELSE LET u == find_one(coll, email[1]) IN
         IF u = None
         THEN HTTPException(404, "User not found")
         ELSE [status |-> 200,
               body |-> [email |-> u[1].email,
                         is_verified |-> u[1].is_verified,
                         created_at |-> u[1].created_at]]

(* password_reset_confirm answering every failure with one detail. *)
password_reset_confirm_one_detail(request, result) ==
    [http |-> IF ~result.success
              THEN HTTPException(400, "Invalid or expired reset token")
              ELSE [status |-> 200, body |-> [message |-> "Password reset successfully"]],
     mail |-> None]

password_reset_confirm(request, result) ==
    [http |-> IF ~result.success
              THEN HTTPException(400, result.message)
              ELSE [status |-> 200, body |-> [message |-> "Password reset successfully"]],
     mail |-> None]

----------------------------------------------------------------------------
(* Requests *)

Inserting == {q \in Procs : pc[q] = "found" /\ call[q].op = "register"}

Request(p, c) ==
    /\ pc[p] = "idle"
    /\ pc' = [pc EXCEPT ![p] = "found"]
    /\ call' = [call EXCEPT ![p] = c]
    /\ user' = [user EXCEPT ![p] = find_one(users, c.email)]
    /\ response' = NoResponse
    /\ UNCHANGED <<users, now, spentToken, bearer>>

CallRegister(p) ==
    /\ Len(users) + Cardinality(Inserting) < MaxDocs
    /\ \E e \in Emails, pw \in Passwords :
          Request(p, [op |-> "register", email |-> e, password |-> pw, secret |-> "-"])

CallVerifyEmail(p) ==
    \E e \in Emails \cup Strangers, c \in Codes :
        Request(p, [op |-> "verify_email", email |-> e, password |-> "-", secret |-> c])

CallSignIn(p) ==
    \E e \in Emails \cup Strangers, pw \in Passwords :
        Request(p, [op |-> "signin", email |-> e, password |-> pw, secret |-> "-"])

CallPasswordReset(p) ==
    \E e \in Emails \cup Strangers :
        Request(p, [op |-> "password_reset", email |-> e, password |-> "-", secret |-> "-"])

CallPasswordResetConfirm(p) ==
    \E e \in Emails \cup Strangers, tok \in ResetTokens, pw \in Passwords :
        Request(p, [op |-> "password_reset_confirm", email |-> e,
                    password |-> pw, secret |-> tok])

Call(p) ==
    \/ CallRegister(p)
    \/ CallVerifyEmail(p)
    \/ CallSignIn(p)
    \/ CallPasswordReset(p)
    \/ CallPasswordResetConfirm(p)

Reply(p, r, out) ==
    /\ pc' = [pc EXCEPT ![p] = "idle"]
    /\ response' = [slot |-> p, call |-> call[p], result |-> r,
                    http |-> out.http, mail |-> out.mail]
    /\ call' = [call EXCEPT ![p] = NoCall]
    /\ user' = [user EXCEPT ![p] = None]
    /\ UNCHANGED now

Return(p, r, out) == Reply(p, r, out) /\ UNCHANGED bearer

FinishRegister(p) ==
    /\ pc[p] = "found" /\ call[p].op = "register"
    /\ \E code \in Codes, salt \in Salts, delivered \in BOOLEAN :
          LET r == register_user(user[p], call[p].email, call[p].password, code, salt, now)
          IN /\ users' = IF r.insert = None THEN users ELSE insert_one(users, r.insert[1])
             /\ Return(p, r.result, signup(call[p], r.result, delivered))
    /\ UNCHANGED spentToken

FinishVerifyEmail(p) ==
    /\ pc[p] = "found" /\ call[p].op = "verify_email"
    /\ LET r == verify_email(user[p], call[p].email, call[p].secret, now)
       IN /\ users' = IF r.set = None THEN users
                       ELSE update_one(users, call[p].email, r.set[1])
          /\ Return(p, r.result, verify_email_route(call[p], r.result))
    /\ UNCHANGED spentToken

FinishSignIn(p) ==
    /\ pc[p] = "found" /\ call[p].op = "signin"
    /\ LET r == authenticate_user(user[p], call[p].email, call[p].password, now)
       IN Return(p, r, signin(call[p], r))
    /\ UNCHANGED <<users, spentToken>>

FinishPasswordReset(p) ==
    /\ pc[p] = "found" /\ call[p].op = "password_reset"
    /\ \E tok \in ResetTokens, delivered \in BOOLEAN :
          LET r == initiate_password_reset(user[p], call[p].email, tok, now)
          IN /\ users' = IF r.set = None THEN users
                          ELSE update_one(users, call[p].email, r.set[1])
             /\ spentToken' = IF r.set = None THEN spentToken
                               ELSE [spentToken EXCEPT ![call[p].email] = None]
             /\ Return(p, r.result, password_reset(call[p], r.result, delivered))

FinishPasswordResetConfirm(p) ==
    /\ pc[p] = "found" /\ call[p].op = "password_reset_confirm"
    /\ \E salt \in Salts :
          LET r == confirm_password_reset(user[p], call[p].email, call[p].secret,
                                          call[p].password, salt, now)
          IN /\ users' = IF r.set = None THEN users
                          ELSE update_one(users, call[p].email, r.set[1])
             /\ spentToken' = IF r.set = None THEN spentToken
                               ELSE [spentToken EXCEPT ![call[p].email] =
                                       Some(call[p].secret)]
             /\ Return(p, r.result, password_reset_confirm(call[p], r.result))

Finish(p) ==
    \/ FinishRegister(p)
    \/ FinishVerifyEmail(p)
    \/ FinishSignIn(p)
    \/ FinishPasswordReset(p)
    \/ FinishPasswordResetConfirm(p)

Tick ==
    /\ now + TickMinutes <= MaxTime
    /\ now' = now + TickMinutes
    /\ response' = NoResponse
    /\ UNCHANGED <<users, pc, call, user, spentToken, bearer>>

(* Requests run one after the other, none starting while another is in     *)
(* flight, and the clock advances between their steps.                      *)
NoneInFlight == \A q \in Procs : pc[q] = "idle"

Next ==
    \/ Tick
    \/ \E p \in Procs : NoneInFlight /\ Call(p)
    \/ \E p \in Procs : Finish(p)

Spec == Init /\ [][Next]_vars

(* Requests run concurrently: their steps interleave in every order, within *)
(* one reading of the clock.                                                *)
RaceNext ==
    \/ \E p \in Procs : Call(p)
    \/ \E p \in Procs : Finish(p)

RaceSpec == Init /\ [][RaceNext]_vars

----------------------------------------------------------------------------
(* The same requests over a store that already holds another account, which *)
(* no request addresses.                                                     *)

Bystander ==
    register_user(None, "b@x.com", "password2", "222222", "s1", 0).insert[1]

FrameInit ==
    /\ users = <<Bystander>>
    /\ now = 0
    /\ pc = [p \in Procs |-> "idle"]
    /\ call = [p \in Procs |-> NoCall]
    /\ user = [p \in Procs |-> None]
    /\ response = NoResponse
    /\ spentToken = [e \in Emails \cup Strangers |-> None]
    /\ bearer = None

FrameSpec == FrameInit /\ [][Next]_vars

----------------------------------------------------------------------------
(* The token routes, over a store that stays as it is: empty, or holding one *)
(* account that has registered and verified.                                 *)

ExpiresDeltas == {None, Some(0 - 15), Some(0), Some(15), Some(30)}
Keys == {jwt_secret_key, "another-secret-key"}
Subjects == Emails \cup Strangers

Malformed == [jws |-> FALSE, sub |-> None, exp |-> None, key |-> "-"]

(* Tokens this process did not issue. *)
ForeignTokens ==
    {jwt_encode([sub |-> s, exp |-> e], k) :
        s \in {None, Some(""), Some("a@x.com")}, e \in {None, Some(30)}, k \in Keys}
    \cup {Malformed}

VerifiedAccount ==
    LET doc == register_user(None, "a@x.com", "password1", "111111", "s1", 0).insert[1]
    IN verify_email(Some(doc), "a@x.com", "111111", 0).set[1] @@ doc

TokenInit ==
    /\ users \in {<<>>, <<VerifiedAccount>>}
    /\ now = 0
    /\ pc = [p \in Procs |-> "idle"]
    /\ call = [p \in Procs |-> NoCall]
    /\ user = [p \in Procs |-> None]
    /\ response = NoResponse
    /\ spentToken = [e \in Emails \cup Strangers |-> None]
    /\ bearer = None

IssueToken ==
    /\ \E sub \in Subjects, expires_delta \in ExpiresDeltas :
          bearer' = Some(create_access_token(sub, expires_delta, now))
    /\ response' = NoResponse
    /\ UNCHANGED <<users, now, pc, call, user, spentToken>>

PresentForeignToken ==
    /\ \E token \in ForeignTokens : bearer' = Some(token)
    /\ response' = NoResponse
    /\ UNCHANGED <<users, now, pc, call, user, spentToken>>

Answer(p, op, http) ==
    /\ response' = [slot |-> p,
                    call |-> [op |-> op, email |-> "-", password |-> "-",
                              secret |-> "-"],
                    result |-> Failure(""), http |-> http, mail |-> None]
    /\ UNCHANGED <<users, now, pc, call, user, spentToken, bearer>>

ValidateToken(p) ==
    /\ bearer # None
    /\ Answer(p, "validate_token", validate_token(bearer[1], now))

GetCurrentUser(p) ==
    /\ bearer # None
    /\ Answer(p, "get_current_user", get_current_user(bearer[1], users, now))

TokenNext ==
    \/ Tick
    \/ IssueToken
    \/ PresentForeignToken
    \/ \E p \in Procs : ValidateToken(p)
    \/ \E p \in Procs : GetCurrentUser(p)

TokenSpec == TokenInit /\ [][TokenNext]_vars

----------------------------------------------------------------------------
(* The requests of Spec with a client that keeps the access_token of the    *)
(* last successful sign-in and presents it to GET /auth/me.                  *)

SignInKeepingToken(p) ==
    /\ pc[p] = "found" /\ call[p].op = "signin"
    /\ LET r == authenticate_user(user[p], call[p].email, call[p].password, now)
       IN /\ Reply(p, r, signin(call[p], r))
          /\ bearer' = IF r.success THEN r.access_token ELSE bearer
    /\ UNCHANGED <<users, spentToken>>

SessionFinish(p) ==
    \/ FinishRegister(p)
    \/ FinishVerifyEmail(p)
    \/ SignInKeepingToken(p)
    \/ FinishPasswordReset(p)
    \/ FinishPasswordResetConfirm(p)

SessionNext ==
    \/ Tick
    \/ \E p \in Procs : NoneInFlight /\ Call(p)
    \/ \E p \in Procs : SessionFinish(p)
    \/ \E p \in Procs : NoneInFlight /\ GetCurrentUser(p)

SessionSpec == Init /\ [][SessionNext]_vars
----------------------------------------------------------------------------
(* Properties *)

(* The account a request for this email finds in the store. *)
Account(e) == find_one(users, e)

(* In this step the handler in slot p returns: the response is its result. *)
Returns(p, op) == pc[p] = "found" /\ pc'[p] = "idle" /\ call[p].op = op

(* The last step returned this handler's result. *)
Returned(op) == response.slot # 0 /\ response.call.op = op

(* C1: after any interleaving of concurrent Register calls for one email,   *)
(* the store holds at most one account with that email and at most one of   *)
(* the calls reports success (none succeeds once the store holds one).      *)
C1_OneAccountPerEmail ==
    [][/\ \A e \in Emails : Cardinality(Matching(users', e)) <= 1
       /\ \A p \in Procs :
            Returns(p, "register") /\ response'.result.success
                => Matching(users, call[p].email) = {}]_vars

(* C2: Register for an email that is already in the store fails with "User  *)
(* already exists", leaves the store as it is, and the store holds exactly  *)
(* one record for that email.                                                *)
C2_RegisterExisting ==
    [][\A p \in Procs :
         Returns(p, "register") /\ Account(call[p].email) # None
             => /\ response'.result = Failure("User already exists")
                /\ users' = users
                /\ Cardinality(Matching(users', call[p].email)) = 1]_vars

C2_Witness ==
    /\ Returned("register")
    /\ response.result.message = "User already exists"
    /\ Account(response.call.email) # None

(* C3: SignIn issues no token for an unverified account: with the correct   *)
(* password it fails with "Email not verified" and carries no token, and    *)
(* whenever it does issue a token the account is verified.                  *)
C3_NoTokenUnverified ==
    [][\A p \in Procs :
         Returns(p, "signin") =>
             LET a == Account(call[p].email) IN
             /\ (/\ a # None
                 /\ ~a[1].is_verified
                 /\ verify_password(call[p].password, a[1].password_hash))
                    => response'.result = Failure("Email not verified")
             /\ response'.result.access_token # None
                    => a # None /\ a[1].is_verified]_vars

C3_Witness ==
    /\ Returned("signin")
    /\ response.result.message = "Email not verified"
    /\ response.result.access_token = None
    /\ verify_password(response.call.password,
                       Account(response.call.email)[1].password_hash)

(* C4: VerifyEmail succeeds only when the account exists, is unverified,    *)
(* the supplied code is the stored code and the clock has not passed its    *)
(* expiry; on a verified account (after a successful VerifyEmail) every     *)
(* VerifyEmail, the same code included, fails with "User already verified". *)
C4_CodeOnceBeforeExpiry ==
    [][\A p \in Procs :
         Returns(p, "verify_email") =>
             LET a == Account(call[p].email) IN
             /\ response'.result.success
                    => /\ a # None
                       /\ ~a[1].is_verified
                       /\ a[1].verification_code = Some(call[p].secret)
                       /\ a[1].verification_code_expires_at # None
                       /\ now <= a[1].verification_code_expires_at[1]
             /\ (a # None /\ a[1].is_verified)
                    => /\ response'.result = Failure("User already verified")
                       /\ users' = users]_vars

C4_Witness ==
    /\ Returned("verify_email")
    /\ response.result.message = "User already verified"
    /\ Account(response.call.email)[1].is_verified

(* C5: a successful ConfirmPasswordReset leaves the account's reset token   *)
(* and its expiry null, and a later ConfirmPasswordReset presenting the     *)
(* token it spent fails with "Invalid reset token", until                   *)
(* InitiatePasswordReset stores a token again.                               *)
C5_TokenNotReusable ==
    [][\A p \in Procs :
         Returns(p, "password_reset_confirm") =>
             /\ response'.result.success
                    => LET a == find_one(users', call[p].email)[1] IN
                       /\ a.password_reset_token = None
                       /\ a.password_reset_token_expires_at = None
             /\ spentToken[call[p].email] = Some(call[p].secret)
                    => /\ response'.result = Failure("Invalid reset token")
                       /\ users' = users]_vars

C5_Witness ==
    /\ Returned("password_reset_confirm")
    /\ response.result.message = "Invalid reset token"
    /\ spentToken[response.call.email] = Some(response.call.secret)

(* C6: a token stored by InitiatePasswordReset lets at most one             *)
(* ConfirmPasswordReset succeed, in every interleaving: none succeeds       *)
(* presenting the token that the last successful one spent.                  *)
C6_SingleUseUnderRace ==
    [][\A p \in Procs :
         Returns(p, "password_reset_confirm") /\ response'.result.success
             => spentToken[call[p].email] # Some(call[p].secret)]_vars

(* C7, as claimed: right after a successful ConfirmPasswordReset on a       *)
(* verified account, SignIn with a password the account had before fails    *)
(* with "Invalid credentials" and SignIn with the new password succeeds.    *)
C7_OldFailsNewSucceeds ==
    [][\A p \in Procs :
         (/\ Returns(p, "password_reset_confirm")
          /\ response'.result.success
          /\ Account(call[p].email)[1].is_verified)
             => \A pw \in Passwords :
                  LET r == authenticate_user(find_one(users', call[p].email),
                                             call[p].email, pw, now) IN
                  /\ pw \in Authenticating(Account(call[p].email)[1])
                         => r = Failure("Invalid credentials")
                  /\ pw = call[p].password => r.success]_vars

(* C7, amended: the old password fails when the new password differs from  *)
(* it; the new password succeeds.                                            *)
C7_OldFailsUnlessReused ==
    [][\A p \in Procs :
         (/\ Returns(p, "password_reset_confirm")
          /\ response'.result.success
          /\ Account(call[p].email)[1].is_verified)
             => \A pw \in Passwords :
                  LET r == authenticate_user(find_one(users', call[p].email),
                                             call[p].email, pw, now) IN
                  /\ (pw \in Authenticating(Account(call[p].email)[1])
                      /\ pw # call[p].password)
                         => r = Failure("Invalid credentials")
                  /\ pw = call[p].password => r.success]_vars

C7_Witness ==
    /\ Returned("password_reset_confirm")
    /\ response.result.success
    /\ Account(response.call.email)[1].is_verified
    /\ Authenticating(Account(response.call.email)[1]) = {response.call.password}

(* C8: ConfirmPasswordReset fails with "User not found" when the account    *)
(* does not exist, "Invalid reset token" when the supplied token differs    *)
(* from the stored one, "Reset token expired" when it matches and the clock *)
(* has passed its expiry; a failure leaves the store as it is.              *)
C8_ConfirmFailures ==
    [][\A p \in Procs :
         Returns(p, "password_reset_confirm") =>
             LET a == Account(call[p].email) IN
             /\ a = None => response'.result = Failure("User not found")
             /\ (a # None /\ a[1].password_reset_token # Some(call[p].secret))
                    => response'.result = Failure("Invalid reset token")
             /\ (/\ a # None
                 /\ a[1].password_reset_token = Some(call[p].secret)
                 /\ now > a[1].password_reset_token_expires_at[1])
                    => response'.result = Failure("Reset token expired")
             /\ ~response'.result.success => users' = users]_vars

C8_Witness ==
    /\ Returned("password_reset_confirm")
    /\ response.result.message = "Reset token expired"
    /\ Account(response.call.email)[1].password_reset_token
           = Some(response.call.secret)

(* C9: is_verified is one-way: no step removes a document or takes one from *)
(* verified back to unverified.                                              *)
C9_VerifiedOneWay ==
    [][/\ Len(users') >= Len(users)
       /\ \A i \in 1..Len(users) :
            /\ users'[i].email = users[i].email
            /\ users[i].is_verified => users'[i].is_verified]_vars

C9_Witness ==
    /\ Returned("password_reset_confirm")
    /\ response.result.success
    /\ Account(response.call.email)[1].is_verified

(* C10, as claimed: verification_code is non-null iff the account is        *)
(* unverified and the clock has not passed verification_code_expires_at.    *)
C10_CodeIffPending ==
    \A i \in 1..Len(users) :
        users[i].verification_code # None
            <=> /\ ~users[i].is_verified
                /\ users[i].verification_code_expires_at # None
                /\ now <= users[i].verification_code_expires_at[1]

(* C10, amended: verification_code is non-null iff the account is           *)
(* unverified, whether or not its expiry has passed; it is null once        *)
(* VerifyEmail has succeeded.                                                *)
C10_CodeIffUnverified ==
    \A i \in 1..Len(users) :
        users[i].verification_code # None <=> ~users[i].is_verified

C10_Witness ==
    \E i \in 1..Len(users) :
        /\ ~users[i].is_verified
        /\ users[i].verification_code # None
        /\ now > users[i].verification_code_expires_at[1]
(* C11, as claimed: an account with a non-null password_reset_token is      *)
(* verified.                                                                 *)
C11_ResetPendingOnlyVerified ==
    \A i \in 1..Len(users) :
        users[i].password_reset_token # None => users[i].is_verified

(* C11, amended: accounts enter ResetPending whether or not they are        *)
(* verified: InitiatePasswordReset stores a token on every existing account *)
(* and neither it nor a successful ConfirmPasswordReset changes is_verified. *)
C11_ResetIgnoresVerification ==
    [][\A p \in Procs :
         LET a == Account(call[p].email)
             b == find_one(users', call[p].email) IN
         /\ (Returns(p, "password_reset") /\ a # None)
                => /\ b[1].password_reset_token # None
                   /\ b[1].password_reset_token = response'.result.secret
                   /\ b[1].is_verified = a[1].is_verified
         /\ (Returns(p, "password_reset_confirm") /\ response'.result.success)
                => b[1].is_verified = a[1].is_verified]_vars

C11_Witness ==
    \E i \in 1..Len(users) :
        ~users[i].is_verified /\ users[i].password_reset_token # None

(* C12: password_hash changes only in a successful ConfirmPasswordReset for *)
(* that account: Register on an existing email, VerifyEmail, SignIn,        *)
(* InitiatePasswordReset and a failed ConfirmPasswordReset leave every      *)
(* existing account's password_hash as it is.                                *)
C12_HashOnlyByConfirm ==
    [][\A i \in 1..Len(users) :
         users'[i].password_hash # users[i].password_hash
             => \E p \in Procs :
                  /\ Returns(p, "password_reset_confirm")
                  /\ response'.result.success
                  /\ call[p].email = users[i].email]_vars

C12_Witness ==
    /\ Returned("password_reset")
    /\ response.result.secret # None
    /\ Account(response.call.email) # None

(* C13: SignIn fails with "Invalid credentials" both when the email is not  *)
(* in the store and when the account exists, verified or not, and the       *)
(* password does not match its hash.                                         *)
C13_UniformInvalidCredentials ==
    [][\A p \in Procs :
         Returns(p, "signin") =>
             LET a == Account(call[p].email) IN
             (a = None \/ ~verify_password(call[p].password, a[1].password_hash))
                 => response'.result = Failure("Invalid credentials")]_vars

(* C14: POST /auth/password-reset answers 200 with one fixed body whether   *)
(* or not an account with the email exists; when none exists the store is   *)
(* left as it is and no mail is handed to the email service.                 *)
C14_ResetEnumerationSafe ==
    [][\A p \in Procs :
         Returns(p, "password_reset") =>
             /\ response'.http =
                    [status |-> 200,
                     body |-> [message |-> "Password reset email sent successfully"]]
             /\ Account(call[p].email) = None
                    => users' = users /\ response'.mail = None]_vars

C14_Witness ==
    /\ Returned("password_reset")
    /\ Account(response.call.email) = None
    /\ response.http.status = 200

(* The outcome ConfirmPasswordReset would have for the same request on the  *)
(* same account with no stored reset token.                                  *)
OutcomeWithoutToken(doc, c, t) ==
    LET bare == [doc EXCEPT !.password_reset_token = None,
                            !.password_reset_token_expires_at = None]
    IN {confirm_password_reset(Some(bare), c.email, c.secret, c.password, salt, t).result :
            salt \in Salts}

ExpiredTokenPresented(p) ==
    LET a == Account(call[p].email) IN
    /\ Returns(p, "password_reset_confirm")
    /\ a # None
    /\ a[1].password_reset_token = Some(call[p].secret)
    /\ now > a[1].password_reset_token_expires_at[1]

(* C15, as claimed: ConfirmPasswordReset with a matching but expired token  *)
(* has the same outcome as on an account with no stored token.               *)
C15_ExpiredAsAbsent ==
    [][\A p \in Procs :
         ExpiredTokenPresented(p) =>
             response'.result \in OutcomeWithoutToken(Account(call[p].email)[1],
                                                      call[p], now)]_vars

(* C15, amended: a matching but expired token and an absent or non-matching *)
(* one both fail with status 400 and leave the store as it is, and differ   *)
(* in the detail: "Reset token expired" against "Invalid reset token".      *)
C15_ExpiredDistinctDetail ==
    [][\A p \in Procs :
         ExpiredTokenPresented(p) =>
             /\ response'.http = HTTPException(400, "Reset token expired")
             /\ users' = users
             /\ \A r \in OutcomeWithoutToken(Account(call[p].email)[1], call[p], now) :
                    password_reset_confirm(call[p], r).http
                        = HTTPException(400, "Invalid reset token")]_vars

C15_Witness ==
    /\ Returned("password_reset_confirm")
    /\ response.http = HTTPException(400, "Reset token expired")
    /\ Account(response.call.email) # None

(* C16: a token issued for subject s with a positive lifetime verifies to   *)
(* claims carrying s at every clock up to and including its expiry and to   *)
(* nothing at every later clock; one issued with its expiry in the past     *)
(* never verifies.                                                           *)
C16_TokenRoundTrip ==
    \A s \in Subjects, d \in ExpiresDeltas, t0 \in 0..now :
        d # None =>
            LET token == create_access_token(s, d, t0) IN
            /\ d[1] > 0 =>
                   /\ token.exp = Some(t0 + d[1])
                   /\ now <= t0 + d[1] =>
                          /\ verify_token(token, now) # None
                          /\ verify_token(token, now)[1].sub = Some(s)
                          /\ get_email_from_token(token, now) = Some(s)
                   /\ now > t0 + d[1] => verify_token(token, now) = None
            /\ d[1] < 0 =>
                   \A t \in t0..now : verify_token(token, t) = None

C16_Witness ==
    /\ Returned("validate_token")
    /\ bearer # None
    /\ \E s \in Subjects, d \in ExpiresDeltas, t0 \in 0..now :
          /\ d # None /\ d[1] > 0 /\ t0 + d[1] = now
          /\ bearer[1] = create_access_token(s, d, t0)
    /\ response.http.body.is_valid

(* C17: ValidateToken reports no token valid, and GET /auth/me answers 401  *)
(* with no profile, when the token is no JWS, is signed under a key other   *)
(* than jwt_secret_key, or carries no subject.                               *)
C17_OnlyConfiguredKey ==
    [][(bearer # None /\ response'.slot # 0 /\ bearer' = bearer) =>
         LET token == bearer[1] IN
         (~token.jws \/ token.key # jwt_secret_key \/ token.sub = None) =>
             /\ response'.call.op = "validate_token" =>
                    /\ ~response'.http.body.is_valid
                    /\ response'.http.body.email = None
             /\ response'.call.op = "get_current_user" =>
                    response'.http = HTTPException(401, "Invalid or expired token")]_vars

C17_Witness ==
    /\ Returned("get_current_user")
    /\ bearer # None
    /\ bearer[1].jws
    /\ bearer[1].key # jwt_secret_key
    /\ bearer[1].sub = Some("a@x.com")
    /\ Account("a@x.com") # None
    /\ response.http.status = 401

(* C18: ValidateToken answers every token, well-formed or malformed,        *)
(* expired or wrongly signed, with status 200 and an is_valid flag, and the *)
(* answer carries an email exactly when is_valid is true.                    *)
C18_ValidateTokenTotal ==
    [][response'.call.op = "validate_token" =>
         /\ response'.http.status = 200
         /\ DOMAIN response'.http.body = {"is_valid", "email", "message"}
         /\ response'.http.body.is_valid \in BOOLEAN
         /\ response'.http.body.is_valid <=> response'.http.body.email # None
         /\ response'.http.body.is_valid <=> verify_token(bearer[1], now) # None]_vars

C18_Witness ==
    /\ Returned("validate_token")
    /\ bearer = Some(Malformed)
    /\ response.http.status = 200
    /\ ~response.http.body.is_valid

(* C19: when a route hands a mail to the email service, the write it        *)
(* announces is in the store, delivered or not, and the answer to the       *)
(* caller is the one it would be had the mail been delivered.               *)
C19_DeliveryFailureKeepsWrite ==
    [][\A p \in Procs :
         (pc[p] = "found" /\ pc'[p] = "idle" /\ response'.mail # None) =>
             LET m == response'.mail[1] IN
             /\ call[p].op \in {"register", "password_reset"}
             /\ m.to = call[p].email
             /\ call[p].op = "register" =>
                    /\ Len(users') = Len(users) + 1
                    /\ users'[Len(users')].email = m.to
                    /\ users'[Len(users')].verification_code = Some(m.secret)
                    /\ response'.http = signup(call[p], response'.result, TRUE).http
                    /\ response'.http.status = 201
             /\ call[p].op = "password_reset" =>
                    /\ find_one(users', m.to) # None
                    /\ find_one(users', m.to)[1].password_reset_token = Some(m.secret)
                    /\ response'.http = password_reset(call[p], response'.result, TRUE).http
                    /\ response'.http.status = 200]_vars

C19_Witness ==
    /\ Returned("register")
    /\ response.mail # None
    /\ ~response.mail[1].delivered
    /\ Account(response.call.email) # None
    /\ response.http.status = 201

(* C20: a successful Register appends one account: unverified, with the     *)
(* code it returns, expiring verification_code_expiration_minutes after the *)
(* registration time, with no reset token, and holding the password as a    *)
(* hash that verifies it, in no other field.                                 *)
C20_RegisterCreates ==
    [][\A p \in Procs :
         (Returns(p, "register") /\ response'.result.success)
             => /\ Len(users') = Len(users) + 1
                /\ LET d == users'[Len(users')] IN
                   /\ d.email = call[p].email
                   /\ ~d.is_verified
                   /\ d.verification_code # None
                   /\ d.verification_code = response'.result.secret
                   /\ d.verification_code_expires_at
                          = Some(now + verification_code_expiration_minutes)
                   /\ d.password_reset_token = None
                   /\ d.password_reset_token_expires_at = None
                   /\ verify_password(call[p].password, d.password_hash)
                   /\ DOMAIN d = {"email", "password_hash", "is_verified",
                                  "verification_code", "verification_code_expires_at",
                                  "password_reset_token",
                                  "password_reset_token_expires_at",
                                  "created_at", "updated_at"}]_vars

C20_Witness ==
    /\ Returned("register")
    /\ response.result.success
    /\ Account(response.call.email) # None
(* The profile GET /auth/me answers for a document. *)
Profile(doc) ==
    [status |-> 200,
     body |-> [email |-> doc.email, is_verified |-> doc.is_verified,
               created_at |-> doc.created_at]]

MeAnswered == response'.call.op = "get_current_user" /\ bearer' = bearer

(* C21, as claimed: GET /auth/me answers 401 when the token does not        *)
(* verify, 404 when it verifies and no account with its subject is in the   *)
(* store, 200 with that account's profile otherwise, and leaves the store   *)
(* as it is.                                                                 *)
C21_MeStatuses ==
    [][MeAnswered =>
         LET payload == verify_token(bearer[1], now) IN
         /\ payload = None
                => response'.http = HTTPException(401, "Invalid or expired token")
         /\ payload # None =>
                LET u == find_one(users, payload[1].sub[1]) IN
                /\ u = None => response'.http = HTTPException(404, "User not found")
                /\ u # None => response'.http = Profile(u[1])
         /\ users' = users]_vars

(* C21, amended: GET /auth/me answers 401 when the token does not verify or *)
(* verifies with an empty subject, 404 when it verifies with a non-empty    *)
(* subject and no account with that subject is in the store, 200 with that  *)
(* account's profile otherwise, and leaves the store as it is.               *)
C21_MeStatusesEmptySubject ==
    [][MeAnswered =>
         LET payload == verify_token(bearer[1], now) IN
         /\ (payload = None \/ payload[1].sub = Some(""))
                => response'.http = HTTPException(401, "Invalid or expired token")
         /\ (payload # None /\ payload[1].sub # Some("")) =>
                LET u == find_one(users, payload[1].sub[1]) IN
                /\ u = None => response'.http = HTTPException(404, "User not found")
                /\ u # None => response'.http = Profile(u[1])
         /\ users' = users]_vars

C21_Witness ==
    /\ Returned("get_current_user")
    /\ bearer # None
    /\ verify_token(bearer[1], now) # None
    /\ bearer[1].sub = Some("a@x.com")
    /\ Account("a@x.com") = None
    /\ response.http.status = 404
(* C22: VerifyEmail fails with "User not found" when the account is absent, *)
(* else "User already verified" when it is verified, else "Invalid          *)
(* verification code" when the supplied code differs from the stored one,   *)
(* else "Verification code expired" when the clock has passed the expiry;   *)
(* each failure is a 400 and leaves the store as it is.                      *)
C22_VerifyFailureOrder ==
    [][\A p \in Procs :
         Returns(p, "verify_email") =>
             LET a == Account(call[p].email)
                 expected ==
                     IF a = None THEN "User not found"
                     ELSE IF a[1].is_verified THEN "User already verified"
                     ELSE IF a[1].verification_code # Some(call[p].secret)
                     THEN "Invalid verification code"
                     ELSE IF now > a[1].verification_code_expires_at[1]
                     THEN "Verification code expired"
                     ELSE "Email verified successfully"
             IN /\ response'.result.message = expected
                /\ response'.result.success <=> expected = "Email verified successfully"
                /\ ~response'.result.success =>
                       /\ users' = users
                       /\ response'.http = HTTPException(400, expected)]_vars

C22_Witness ==
    /\ Returned("verify_email")
    /\ response.result.message = "Invalid verification code"
    /\ Account(response.call.email) # None
    /\ ~Account(response.call.email)[1].is_verified
    /\ now > Account(response.call.email)[1].verification_code_expires_at[1]
(* The fields each operation names in its update. *)
Named(op) ==
    CASE op = "verify_email" ->
             {"is_verified", "verification_code", "verification_code_expires_at"}
      [] op = "password_reset" ->
             {"password_reset_token", "password_reset_token_expires_at"}
      [] op = "password_reset_confirm" ->
             {"password_hash", "password_reset_token",
              "password_reset_token_expires_at"}
      [] OTHER -> {}

Changed(i) == {f \in DOMAIN users[i] : users'[i][f] # users[i][f]}

(* C23: a step changes a stored document only when it is the return of a    *)
(* request addressed to that document's email, and then only in the fields  *)
(* the operation names and updated_at; email and created_at never change.   *)
C23_NamedFieldsOnly ==
    [][\A i \in 1..Len(users) :
         /\ DOMAIN users'[i] = DOMAIN users[i]
         /\ "email" \notin Changed(i)
         /\ "created_at" \notin Changed(i)
         /\ Changed(i) # {} =>
                \E p \in Procs :
                    /\ pc[p] = "found" /\ pc'[p] = "idle"
                    /\ call[p].email = users[i].email
                    /\ response'.result.success
                    /\ Changed(i) \subseteq Named(call[p].op) \cup {"updated_at"}]_vars

C23_Witness ==
    /\ Len(users) = 2
    /\ users[1] = Bystander
    /\ Returned("password_reset_confirm")
    /\ response.result.success
    /\ users[2].is_verified
(* C24: in every stored document verification_code and its expiry are both  *)
(* set or both null, and password_reset_token and its expiry are both set   *)
(* or both null.                                                             *)
C24_NullablePairs ==
    \A i \in 1..Len(users) :
        /\ users[i].verification_code = None
               <=> users[i].verification_code_expires_at = None
        /\ users[i].password_reset_token = None
               <=> users[i].password_reset_token_expires_at = None

C24_Witness ==
    /\ Returned("password_reset")
    /\ \E i \in 1..Len(users) :
          /\ users[i].verification_code = None
          /\ users[i].verification_code_expires_at = None
          /\ users[i].password_reset_token # None
          /\ users[i].password_reset_token_expires_at # None

(* The tokens ConfirmPasswordReset would accept for a document at clock t. *)
Accepted(doc, t) ==
    {tok \in ResetTokens :
        \A pw \in Passwords, salt \in Salts :
            confirm_password_reset(Some(doc), doc.email, tok, pw, salt, t).result.success}

Reissued(p) ==
    LET a == Account(call[p].email) IN
    /\ Returns(p, "password_reset")
    /\ a # None
    /\ a[1].password_reset_token # None
    /\ now <= a[1].password_reset_token_expires_at[1]
    /\ response'.result.secret # a[1].password_reset_token

(* C25: an InitiatePasswordReset on an account that holds an unexpired      *)
(* token replaces it and its expiry with the new token and a fresh expiry;  *)
(* from then on ConfirmPasswordReset accepts the new token only, and fails  *)
(* with "Invalid reset token" for the earlier one.                           *)
C25_SecondTokenReplacesFirst ==
    [][\A p \in Procs :
         Reissued(p) =>
             LET a == Account(call[p].email)
                 b == find_one(users', call[p].email)
                 earlier == a[1].password_reset_token[1]
             IN /\ Accepted(a[1], now) = {earlier}
                /\ b[1].password_reset_token = response'.result.secret
                /\ b[1].password_reset_token_expires_at
                       = Some(now + password_reset_expiration_hours * 60)
                /\ Accepted(b[1], now) = {response'.result.secret[1]}
                /\ \A pw \in Passwords, salt \in Salts :
                       confirm_password_reset(b, call[p].email, earlier, pw, salt, now).result
                           = Failure("Invalid reset token")]_vars

C25_Witness ==
    /\ Returned("password_reset_confirm")
    /\ response.result.message = "Invalid reset token"
    /\ Account(response.call.email) # None
    /\ Account(response.call.email)[1].password_reset_token # None
    /\ now <= Account(response.call.email)[1].password_reset_token_expires_at[1]
    /\ Cardinality(Accepted(Account(response.call.email)[1], now)) = 1
(* C26: a successful ConfirmPasswordReset clears only the token it          *)
(* validated: when the stored token at its write is another one, stored by  *)
(* an InitiatePasswordReset since Confirm read the account, that token is   *)
(* still stored after the write.                                             *)
C26_ConfirmKeepsNewerToken ==
    [][\A p \in Procs :
         LET a == Account(call[p].email) IN
         (/\ Returns(p, "password_reset_confirm")
          /\ response'.result.success
          /\ a[1].password_reset_token # None
          /\ a[1].password_reset_token # Some(call[p].secret))
             => find_one(users', call[p].email)[1].password_reset_token
                    = a[1].password_reset_token]_vars
(* C27: the subject of a token issued by SignIn has an account that is      *)
(* verified, when the token is issued and in every later state; GET         *)
(* /auth/me presented with that token before its expiry answers 200 with    *)
(* that account's profile and is_verified true, never 404.                   *)
C27_SignInTokenSubjectStays ==
    bearer # None =>
        LET token == bearer[1]
            a == Account(token.sub[1])
        IN /\ token.sub[1] \in Emails
           /\ a # None
           /\ a[1].is_verified
           /\ now <= token.exp[1] =>
                  /\ get_current_user(token, users, now) = Profile(a[1])
                  /\ Returned("get_current_user") =>
                         /\ response.http.status = 200
                         /\ response.http.body.is_verified

C27_Witness ==
    /\ Returned("get_current_user")
    /\ response.http.status = 200
    /\ bearer # None
    /\ now > bearer[1].exp[1] - jwt_expiration_hours * 60
    /\ ~verify_password("password1", Account(bearer[1].sub[1])[1].password_hash)
(* An unverified document whose verification code has expired. *)
ExpiredUnverified(doc, t) ==
    /\ ~doc.is_verified
    /\ doc.verification_code_expires_at # None
    /\ t > doc.verification_code_expires_at[1]

(* C28: an unverified account whose verification code has expired stays     *)
(* unverified with the same code and expiry across every step, so no        *)
(* sequence of operations verifies it.                                       *)
C28_ExpiredStaysUnverified ==
    [][\A i \in 1..Len(users) :
         ExpiredUnverified(users[i], now) =>
             /\ ExpiredUnverified(users'[i], now')
             /\ users'[i].verification_code = users[i].verification_code
             /\ users'[i].verification_code_expires_at
                    = users[i].verification_code_expires_at]_vars

C28_Witness ==
    /\ Returned("verify_email")
    /\ response.result.message = "Verification code expired"
    /\ Account(response.call.email) # None
    /\ ExpiredUnverified(Account(response.call.email)[1], now)
====
